---- MODULE Spec2Model ----
(***************************************************************************)
(* A model of video-encode.py: the Handbrake command builder, the FFProbe  *)
(* stream parser, the constant-quality search find_quality_option, the     *)
(* subtitle policy find_burn_subtitle_track, the main script's final       *)
(* encode and the Dolby Vision re-injection inject_dolby_vision.           *)
(*                                                                         *)
(* Four specifications share the definitions below:                        *)
(*   Spec         find_quality_option(media_info, target_bit_rate)         *)
(*   SpecBuilder  every sequence of calls on one Handbrake object          *)
(*   SpecProbe    FFProbe.__init__'s loop over the probed streams          *)
(*   SpecMain     the main script from the final encode to its end         *)
(* Bit rates are integers: ffprobe's bit_rate is drawn from multiples of   *)
(* 1000 bit/s, so bitrate / 1000 is exact, and the mean bit_rate_sum /     *)
(* steps is kept as the fraction [num, den] and compared by cross          *)
(* multiplication.                                                         *)
(***************************************************************************)
EXTENDS Integers, Sequences, FiniteSets, TLC

VARIABLES
    \* ---- find_quality_option
    media_info,           \* the FFProbe object the function is given
    target_bit_rate,      \* its second parameter, kbit/s
    pc,                   \* position in find_quality_option
    low_cq, high_cq, cq,  \* the locals of the binary search (cq 0: unbound)
    sample_index,         \* the for loop's variable
    bit_rate_sum,         \* sum of the corrected sample bit rates
    bit_rate_mean,        \* [num, den]: bit_rate_sum / steps, once computed
    temporary_directory,  \* [exists, files]: the TemporaryDirectory on disk
    measured,             \* history: raw kbit/s of this iteration's samples
    accepted,             \* history: the loop ended by break
    returned_cq,          \* the function's return value (0: none yet)
    \* ---- Handbrake builder
    encoder,              \* the Handbrake object's fields
    calls,                \* the number of calls made on it
    was_set,              \* history: the setters that have completed
    runs,                 \* history: what every run() call found and did
    raised,               \* the exception the last call raised ("" if none)
    launched,             \* history: the handbrakecli commands launched
    \* ---- FFProbe.__init__
    streams,              \* media_info.get('streams'), as ffprobe reports it
    stream_pos,           \* how many streams the loop has consumed
    probe,                \* the FFProbe object under construction
    probe_pc,             \* position in FFProbe.__init__
    audio_index, subtitle_index,
    \* ---- main script
    arguments,            \* parse_arguments()' result (quality 0: None)
    main_pc,              \* position in the main script
    quality_option,       \* main's quality_option (0: None)
    subtitle_track,       \* main's subtitle_track (-1: unbound)
    disk,                 \* the files of the run that exist
    tools                 \* history: exit status of each external tool run

searchVars == <<media_info, target_bit_rate, pc, low_cq, high_cq, cq,
                sample_index, bit_rate_sum, bit_rate_mean,
                temporary_directory, measured, accepted, returned_cq>>
builderVars == <<encoder, calls, was_set, runs, raised>>
probeVars == <<streams, stream_pos, probe, probe_pc, audio_index,
               subtitle_index>>
mainVars == <<arguments, main_pc, quality_option, subtitle_track, disk, tools>>
vars == <<searchVars, builderVars, probeVars, mainVars, launched>>

----------------------------------------------------------------------------
(* Bounds of the model *)

\* sample bit rates are 0 .. MaxBitrateUnits times 7 000 000 bit/s
MaxBitrateUnits == 2
\* the number of calls made on one Handbrake object under SpecBuilder
MaxCalls == 5
\* the number of streams ffprobe reports under SpecProbe
MaxStreams == 3
\* the number of subtitle tracks of the source under SpecMain
MaxSubtitles == 2

----------------------------------------------------------------------------
(* Strings and paths *)

Digits == <<"0", "1", "2", "3", "4", "5", "6", "7", "8", "9">>

\* str(n) for a natural number n
RECURSIVE str(_)
str(n) == IF n < 10 THEN Digits[n + 1]
          ELSE str(n \div 10) \o Digits[(n % 10) + 1]

\* a path is [dir, base]; PathStr is the string the script passes around
PathStr(p) == IF p.dir = "" THEN p.base ELSE p.dir \o "/" \o p.base

\* os.path.basename
basename(p) == p.base

\* the text of a float whose value is the whole number n, as in f'{n}'
float_str(n) == str(n) \o ".0"

----------------------------------------------------------------------------
(* class Handbrake *)

Handbrake_init ==
    [input_file |-> "",
     input_command |-> <<>>,
     output_command |-> <<>>,
     quality_command |-> <<>>,
     crop_command |-> <<"--crop", "0:0:0:0">>,
     previews_command |-> <<"--previews", "1:0">>,
     burn_subtitle_command |-> <<>>,
     start_at_command |-> <<>>,
     stop_at_command |-> <<>>,
     encoder_command |-> <<"--encoder", "vt_h265_10bit",
                           "--encoder-preset", "quality",
                           "--encoder-profile", "auto",
                           "--encoder-level", "auto">>,
     audio_encoder_command |-> <<>>]

Handbrake_input(h, input_file_path) ==
    [h EXCEPT !.input_file = PathStr(input_file_path),
              !.input_command = <<"--input", PathStr(input_file_path)>>,
              !.output_command = <<"--output", basename(input_file_path)>>]

Handbrake_output(h, output_file_path) ==
    [h EXCEPT !.output_command = <<"--output", output_file_path>>]

\* time_in_seconds is the text Python's f-string gives the caller's number
Handbrake_start_time(h, time_in_seconds) ==
    [h EXCEPT !.start_at_command =
                  <<"--start-at", "seconds:" \o time_in_seconds \o "s">>]

Handbrake_stop_at(h, time_in_seconds) ==
    [h EXCEPT !.stop_at_command =
                  <<"--stop-at", "seconds:" \o time_in_seconds \o "s">>]

Handbrake_quality(h, cq_number) ==
    [h EXCEPT !.quality_command = <<"--quality", str(cq_number)>>]

\* a crop() that also widens the preview count, as a builder enforcing the
\* dependency between the two fields would
Handbrake_crop_widening(h) ==
    [h EXCEPT !.crop_command = <<"--crop-threshold-frames", "3">>,
              !.previews_command = <<"--previews", "60:0">>]

Handbrake_crop(h) ==
    [h EXCEPT !.crop_command = <<"--crop-threshold-frames", "3">>]

Handbrake_previews(h, previews_number) ==
    [h EXCEPT !.previews_command =
                  <<"--previews", str(previews_number) \o ":0">>]

Handbrake_burn_subtitle(h, track) ==
    [h EXCEPT !.burn_subtitle_command =
                  <<"--subtitle", str(track), "--subtitle-burned">>]

\* audio_encoder raises ValueError for any name but 'ac3' and 'aac'
audio_encoder_raises(aencoder) == aencoder \notin {"ac3", "aac"}

Handbrake_audio_encoder(h, aencoder) ==
    IF aencoder = "ac3"
    THEN [h EXCEPT !.audio_encoder_command =
                       <<"--aencoder", "ac3", "--ab", "448",
                         "--mixdown", "5point1", "--arate", "auto">>]
    ELSE IF aencoder = "aac"
    THEN [h EXCEPT !.audio_encoder_command =
                       <<"--aencoder", "aac", "--ab", "256",
                         "--mixdown", "stereo", "--arate", "auto">>]
    ELSE h

\* a run() whose last test is missing
run_raises_no_audio_test(h) ==
    IF h.input_command = <<>> THEN "handbrakecli missing input option"
    ELSE IF h.quality_command = <<>> THEN "handbrakecli missing quality option"
    ELSE ""

\* the TypeError run() raises before it builds the command ("" if none)
run_raises(h) ==
    IF h.input_command = <<>> THEN "handbrakecli missing input option"
    ELSE IF h.quality_command = <<>> THEN "handbrakecli missing quality option"
    ELSE IF h.audio_encoder_command = <<>> THEN "handbrakecli missing audio options"
    ELSE ""

\* the command line run() hands to subprocess.run
run_command(h) ==
    <<"handbrakecli">> \o h.input_command \o h.output_command
        \o h.start_at_command \o h.stop_at_command \o h.previews_command
        \o h.crop_command \o <<"--markers">> \o h.encoder_command
        \o <<"--no-comb-detect", "--no-decomb">> \o h.quality_command
        \o h.audio_encoder_command \o h.burn_subtitle_command

\* the value following option opt in a command line ("" if opt is absent)
OptionValue(command, opt) ==
    IF \E i \in 1..(Len(command) - 1) : command[i] = opt
    THEN command[(CHOOSE i \in 1..(Len(command) - 1) : command[i] = opt) + 1]
    ELSE ""

HasOption(command, opt) == \E i \in 1..Len(command) : command[i] = opt

----------------------------------------------------------------------------
(* The states the other components rest in while one is being checked *)

\* find_quality_option is not running
IdleSearchLocals ==
    /\ target_bit_rate = 0
    /\ pc = "idle"
    /\ low_cq = 0 /\ high_cq = 0 /\ cq = 0
    /\ sample_index = 0
    /\ bit_rate_sum = 0
    /\ bit_rate_mean = [num |-> 0, den |-> 1]
    /\ temporary_directory = [exists |-> FALSE, files |-> {}]
    /\ measured = [n |-> 0, kbps |-> 0]
    /\ accepted = FALSE
    /\ returned_cq = 0

IdleSearch ==
    /\ media_info = [file_path |-> [dir |-> "", base |-> ""], height |-> 0,
                     duration_in_seconds |-> 0, frame_rate |-> "",
                     is_dolby_vision |-> FALSE, audios |-> <<>>,
                     subtitles |-> <<>>]
    /\ IdleSearchLocals

IdleBuilder ==
    /\ encoder = Handbrake_init
    /\ calls = 0
    /\ was_set = {}
    /\ runs = {}
    /\ raised = ""

IdleProbe ==
    /\ streams = <<>>
    /\ stream_pos = 0
    /\ probe = [height |-> 0, frame_rate |-> "0", is_dolby_vision |-> FALSE,
                subtitles |-> <<>>, audios |-> <<>>, bitrate |-> 0,
                duration_in_seconds |-> 0]
    /\ probe_pc = "idle"
    /\ audio_index = 0
    /\ subtitle_index = 0

IdleMain ==
    /\ arguments = [burn_subtitle |-> "none", crop |-> FALSE, quality |-> 0,
                    target |-> 0]
    /\ main_pc = "idle"
    /\ quality_option = 0
    /\ subtitle_track = -1
    /\ disk = {}
    /\ tools = <<>>

----------------------------------------------------------------------------
(* find_quality_option *)

steps == 5

\* the sources and targets find_quality_option is called with
SearchSources ==
    { [file_path |-> [dir |-> "/rips", base |-> "movie.mkv"],
       height |-> hc[1], duration_in_seconds |-> 600,
       frame_rate |-> "24000/1001", is_dolby_vision |-> FALSE,
       audios |-> << [index |-> 1, language |-> "eng", channels |-> hc[2]] >>,
       subtitles |-> <<>>] :
          hc \in {<<720, 2>>, <<1080, 2>>, <<1080, 6>>, <<2160, 6>>} }

SearchTargets == {4000, 12000}

\* format.bit_rate of a sample clip, bit/s
SampleBitrates == { k * 7000000 : k \in 0..MaxBitrateUnits }

\* a slip in the resolution test: a 1080-line source gets the wider range
initial_low_cq_strict(height) == IF height < 1080 THEN 25 ELSE 20

initial_low_cq(height) == IF height <= 1080 THEN 25 ELSE 20

initial_high_cq(height) == IF height <= 1080 THEN 75 ELSE 80

\* int((low_cq + high_cq) / 2), both positive
midpoint(low, high) == (low + high) \div 2

\* the while loop's condition
loop_continues(low, high) == low <= high

\* bit_rate_mean > target_bit_rate + 900
above_band(mean, target) == mean.num > mean.den * (target + 900)

\* a slip in the lower test: means up to 1000 under the target pass it
below_band_loose(mean, target) == mean.num < mean.den * (target - 1000)

\* bit_rate_mean < target_bit_rate
below_band(mean, target) == mean.num < mean.den * target

\* a slip in the upper bound's update: the midpoint stays in the interval
new_high_cq_inclusive(cq_number) == cq_number

\* line 330: high_cq = cq - 1
new_high_cq(cq_number) == cq_number - 1

\* line 332: low_cq = cq + 1
new_low_cq(cq_number) == cq_number + 1

sample_file_name(cq_number, index) ==
    "tmp/cq_" \o str(cq_number) \o "_sample_" \o str(index) \o ".mkv"

\* the Handbrake object built for one sample clip
sample_encoder(info, cq_number, index) ==
    LET e1 == Handbrake_input(Handbrake_init, info.file_path)
        e2 == Handbrake_output(e1, sample_file_name(cq_number, index))
        e3 == IF info.audios[1].channels <= 2
              THEN Handbrake_audio_encoder(e2, "aac")
              ELSE Handbrake_audio_encoder(e2, "ac3")
        e4 == Handbrake_start_time(e3,
                  float_str((info.duration_in_seconds * index) \div (steps + 1)))
        e5 == Handbrake_stop_at(e4, str(20))
    IN  Handbrake_quality(e5, cq_number)

\* temporary_directory.cleanup()
cleanup(directory) == [exists |-> FALSE, files |-> {}]

InitSearch ==
    /\ media_info \in SearchSources
    /\ target_bit_rate \in SearchTargets
    /\ pc = "while"
    /\ low_cq = initial_low_cq(media_info.height)
    /\ high_cq = initial_high_cq(media_info.height)
    /\ cq = 0
    /\ sample_index = 0
    /\ bit_rate_sum = 0
    /\ bit_rate_mean = [num |-> 0, den |-> 1]
    /\ temporary_directory = [exists |-> TRUE, files |-> {}]
    /\ measured = [n |-> 0, kbps |-> 0]
    /\ accepted = FALSE
    /\ returned_cq = 0

\* lines 304-307: the loop is entered and a midpoint chosen
StartIteration ==
    /\ pc = "while"
    /\ loop_continues(low_cq, high_cq)
    /\ cq' = midpoint(low_cq, high_cq)
    /\ bit_rate_sum' = 0
    /\ sample_index' = 1
    /\ measured' = [n |-> 0, kbps |-> 0]
    /\ pc' = "for"
    /\ UNCHANGED <<media_info, target_bit_rate, low_cq, high_cq, bit_rate_mean,
                   temporary_directory, accepted, returned_cq>>
    /\ UNCHANGED <<builderVars, probeVars, mainVars, launched>>

\* lines 308-325: one sample clip is encoded and probed
EncodeSample ==
    /\ pc = "for"
    /\ sample_index < steps
    /\ LET e == sample_encoder(media_info, cq, sample_index)
       IN  /\ run_raises(e) = ""
           /\ launched' = launched \cup {run_command(e)}
    /\ \E bitrate \in SampleBitrates :
          /\ bit_rate_sum' = bit_rate_sum + (bitrate \div 1000 + 2000)
          /\ measured' = [n |-> measured.n + 1,
                          kbps |-> measured.kbps + bitrate \div 1000]
    /\ temporary_directory' =
           [temporary_directory EXCEPT
               !.files = @ \cup {sample_file_name(cq, sample_index)}]
    /\ sample_index' = sample_index + 1
    /\ UNCHANGED <<media_info, target_bit_rate, pc, low_cq, high_cq, cq,
                   bit_rate_mean, accepted, returned_cq>>
    /\ UNCHANGED <<builderVars, probeVars, mainVars>>

\* lines 321-323: the encode leaves no clip, or ffprobe's output of the clip
\* cannot be read: FFProbe raises and the exception leaves the function
SampleRaises ==
    /\ pc = "for"
    /\ sample_index < steps
    /\ LET e == sample_encoder(media_info, cq, sample_index)
       IN  /\ run_raises(e) = ""
           /\ launched' = launched \cup {run_command(e)}
    /\ \E clip_written \in BOOLEAN :
          temporary_directory' =
              [temporary_directory EXCEPT
                  !.files = IF clip_written
                            THEN @ \cup {sample_file_name(cq, sample_index)}
                            ELSE @]
    /\ pc' = "failed"
    /\ UNCHANGED <<media_info, target_bit_rate, low_cq, high_cq, cq,
                   sample_index, bit_rate_sum, bit_rate_mean, measured,
                   accepted, returned_cq>>
    /\ UNCHANGED <<builderVars, probeVars, mainVars>>

\* lines 327-338: the mean is compared with the band; on a match the loop
\* is left by break, the directory cleaned up and cq returned
Compare ==
    /\ pc = "for"
    /\ sample_index = steps
    /\ bit_rate_mean' = [num |-> bit_rate_sum, den |-> steps]
    /\ \/ /\ above_band(bit_rate_mean', target_bit_rate)
          /\ high_cq' = new_high_cq(cq)
          /\ pc' = "while"
          /\ UNCHANGED <<low_cq, temporary_directory, accepted, returned_cq>>
       \/ /\ ~above_band(bit_rate_mean', target_bit_rate)
          /\ below_band(bit_rate_mean', target_bit_rate)
          /\ low_cq' = new_low_cq(cq)
          /\ pc' = "while"
          /\ UNCHANGED <<high_cq, temporary_directory, accepted, returned_cq>>
       \/ /\ ~above_band(bit_rate_mean', target_bit_rate)
          /\ ~below_band(bit_rate_mean', target_bit_rate)
          /\ accepted' = TRUE
          /\ temporary_directory' = cleanup(temporary_directory)
          /\ returned_cq' = cq
          /\ pc' = "returned"
          /\ UNCHANGED <<low_cq, high_cq>>
    /\ UNCHANGED <<media_info, target_bit_rate, cq, sample_index, bit_rate_sum,
                   measured>>
    /\ UNCHANGED <<builderVars, probeVars, mainVars, launched>>

\* lines 304, 336-338: low_cq has passed high_cq
ExitLoop ==
    /\ pc = "while"
    /\ ~loop_continues(low_cq, high_cq)
    /\ temporary_directory' = cleanup(temporary_directory)
    /\ returned_cq' = cq
    /\ pc' = "returned"
    /\ UNCHANGED <<media_info, target_bit_rate, low_cq, high_cq, cq,
                   sample_index, bit_rate_sum, bit_rate_mean, measured,
                   accepted>>
    /\ UNCHANGED <<builderVars, probeVars, mainVars, launched>>

\* line 295: the TemporaryDirectory object's finalizer removes the directory
\* when the object is collected or the interpreter exits, which the
\* uncaught exception brings about some time after the function has failed
implicit_cleanup ==
    /\ pc = "failed"
    /\ temporary_directory' = cleanup(temporary_directory)
    /\ pc' = "exited"
    /\ UNCHANGED <<media_info, target_bit_rate, low_cq, high_cq, cq,
                   sample_index, bit_rate_sum, bit_rate_mean, measured,
                   accepted, returned_cq>>
    /\ UNCHANGED <<builderVars, probeVars, mainVars, launched>>

Init == InitSearch /\ IdleBuilder /\ IdleProbe /\ IdleMain /\ launched = {}

Next ==
    \/ StartIteration
    \/ EncodeSample
    \/ SampleRaises
    \/ Compare
    \/ ExitLoop
    \/ implicit_cleanup

Spec == Init /\ [][Next]_vars

\* the script is one sequential thread: a step that can be taken is taken,
\* every external tool being taken to return
SpecFair == Init /\ [][Next]_vars /\ WF_vars(Next)

----------------------------------------------------------------------------
(* Claims about find_quality_option, checked under Spec *)

\* the quality range the specification gives a source of this height
QualityRange(height) == IF height <= 1080 THEN 25..75 ELSE 20..80

\* the same ranges as the texts a command line carries
NarrowRangeTexts == { str(q) : q \in 25..75 }
WideRangeTexts == { str(q) : q \in 20..80 }

\* the --quality values of the sample encodes launched so far
EvaluatedQualities == { OptionValue(command, "--quality") : command \in launched }

\* C1: every quality value handed to a sample encode, the midpoint of every
\* iteration and the returned quality lie in [25,75] when the source height
\* is at most 1080 and in [20,80] when it is more.
C1_QualityInRange ==
    LET range == QualityRange(media_info.height)
    IN  /\ EvaluatedQualities \subseteq
               (IF media_info.height <= 1080 THEN NarrowRangeTexts
                                             ELSE WideRangeTexts)
        /\ pc = "for" => cq \in range
        /\ pc = "returned" => returned_cq \in range

\* a search on a source of at most 1080 lines that found every mean under
\* the target and so ended at the top of its range
C1_Witness ==
    /\ pc = "returned"
    /\ ~accepted
    /\ media_info.height <= 1080
    /\ returned_cq = 75
    /\ "75" \in EvaluatedQualities

\* C2: low_cq <= high_cq holds throughout every iteration of the loop, and
\* when the search ends by break the mean of the returned quality lies in
\* [target_bit_rate, target_bit_rate + 900].
C2_BandOnAcceptance ==
    /\ pc = "for" => low_cq <= high_cq
    /\ accepted =>
          /\ returned_cq = cq
          /\ bit_rate_mean.den * target_bit_rate <= bit_rate_mean.num
          /\ bit_rate_mean.num <= bit_rate_mean.den * (target_bit_rate + 900)

\* a search that ended by break in its second iteration or later
C2_Witness ==
    /\ accepted
    /\ pc = "returned"
    /\ Cardinality(launched) > steps

\* C3: the mean compared with the band is the sum of (measured kbit/s + 2000)
\* over the clips encoded in the iteration, divided by the number of those
\* clips.  The code divides by steps, and encodes steps - 1 clips.
C3_MeanOfEncodedSamples ==
    (pc \in {"while", "returned"} /\ measured.n > 0) =>
        bit_rate_mean.num * measured.n =
            (measured.kbps + 2000 * measured.n) * bit_rate_mean.den

\* C5: once find_quality_option has returned or failed, the temporary
\* directory and the sample clips in it are gone.  The code cleans up on
\* its last line only, which an exception skips.
C5_NoSamplesRemain ==
    pc \in {"returned", "failed"} =>
        /\ ~temporary_directory.exists
        /\ temporary_directory.files = {}

\* the function has left: by return, or by an exception
Terminated == pc \in {"returned", "failed", "exited"}

\* an iteration that did not accept shrinks the interval
IntervalShrinks ==
    (pc = "for" /\ pc' = "while") =>
        high_cq' - low_cq' < high_cq - low_cq

\* the midpoint an iteration starts with was not evaluated before
MidpointIsNew ==
    (pc = "while" /\ pc' = "for") => str(cq') \notin EvaluatedQualities

\* leaving the loop with low_cq past high_cq returns the last midpoint
ExhaustedReturnsLastMidpoint ==
    (pc = "while" /\ pc' = "returned") =>
        /\ low_cq > high_cq
        /\ ~accepted'
        /\ returned_cq' = cq
        /\ measured.n = steps - 1
        /\ sample_file_name(cq, measured.n) \in temporary_directory.files

\* the number of quality values still inside [low_cq, high_cq]
Candidates == IF low_cq <= high_cq THEN high_cq - low_cq + 1 ELSE 0

\* a bound on the steps the function can still take: one to start an
\* iteration, steps - 1 clips and the comparison for every candidate left,
\* the loop's exit, and the finalizer after a failure
StepsLeft ==
    CASE pc = "while" -> Candidates * (steps + 2) + 2
      [] pc = "for" -> Candidates * (steps + 2) + 1 - sample_index
      [] pc = "failed" -> 1
      [] OTHER -> 0

\* every step of the function uses up some of the steps left
StepsLeftDecrease == StepsLeft' < StepsLeft

\* C11: find_quality_option terminates: the steps left are finite and
\* every step takes some, a step is possible until the function has left,
\* every iteration that does not accept strictly shrinks [low_cq, high_cq],
\* no quality value is evaluated twice, and a search that ends with low_cq
\* past high_cq returns the midpoint of its last iteration.
C11_Terminates ==
    /\ [](StepsLeft >= 0)
    /\ [](Terminated \/ ENABLED Next)
    /\ [][StepsLeftDecrease]_vars
    /\ [][IntervalShrinks]_vars
    /\ [][MidpointIsNew]_vars
    /\ [][ExhaustedReturnsLastMidpoint]_vars

\* the same end stated as a liveness property, for SpecFair
EventuallyTerminated == <>Terminated

\* a search of six iterations, none accepting, that has returned the last
\* midpoint it tried
C11_Witness ==
    /\ pc = "returned"
    /\ ~accepted
    /\ low_cq > high_cq
    /\ returned_cq = cq
    /\ Cardinality(EvaluatedQualities) = 6
    /\ str(returned_cq) \in EvaluatedQualities

----------------------------------------------------------------------------
(* Every sequence of calls on one Handbrake object *)

BuilderPaths == { [dir |-> "", base |-> ""],
                  [dir |-> "", base |-> "movie.mkv"],
                  [dir |-> "/rips", base |-> "movie.mkv"] }

BuilderQualities == {1, 47}

BuilderPreviews == {1, 60}

BuilderTracks == {0, 2}

BuilderEncoders == {"ac3", "aac", "mp3"}

\* a call that returns: the object changes, the setter is recorded
Returns(h, setter) ==
    /\ encoder' = h
    /\ was_set' = was_set \cup {setter}
    /\ raised' = ""
    /\ calls' = calls + 1
    /\ UNCHANGED <<runs, launched>>
    /\ UNCHANGED <<searchVars, probeVars, mainVars>>

CallInput ==
    /\ calls < MaxCalls
    /\ \E path \in BuilderPaths : Returns(Handbrake_input(encoder, path), "input")

CallOutput ==
    /\ calls < MaxCalls
    /\ Returns(Handbrake_output(encoder, "out.mkv"), "output")

CallStartTime ==
    /\ calls < MaxCalls
    /\ Returns(Handbrake_start_time(encoder, float_str(100)), "start_time")

CallStopAt ==
    /\ calls < MaxCalls
    /\ Returns(Handbrake_stop_at(encoder, str(20)), "stop_at")

CallQuality ==
    /\ calls < MaxCalls
    /\ \E q \in BuilderQualities : Returns(Handbrake_quality(encoder, q), "quality")

CallCrop ==
    /\ calls < MaxCalls
    /\ Returns(Handbrake_crop(encoder), "crop")

CallPreviews ==
    /\ calls < MaxCalls
    /\ \E n \in BuilderPreviews : Returns(Handbrake_previews(encoder, n), "previews")

CallBurnSubtitle ==
    /\ calls < MaxCalls
    /\ \E track \in BuilderTracks :
          Returns(Handbrake_burn_subtitle(encoder, track), "burn_subtitle")

\* lines 142-154: an unknown encoder name raises ValueError and sets nothing
CallAudioEncoder ==
    /\ calls < MaxCalls
    /\ \E aencoder \in BuilderEncoders :
          \/ /\ ~audio_encoder_raises(aencoder)
             /\ Returns(Handbrake_audio_encoder(encoder, aencoder), "audio_encoder")
          \/ /\ audio_encoder_raises(aencoder)
             /\ raised' = "ValueError"
             /\ calls' = calls + 1
             /\ encoder' = Handbrake_audio_encoder(encoder, aencoder)
             /\ UNCHANGED <<was_set, runs, launched>>
             /\ UNCHANGED <<searchVars, probeVars, mainVars>>

\* lines 156-183: run() raises TypeError, or launches handbrakecli
CallRun ==
    /\ calls < MaxCalls
    /\ calls' = calls + 1
    /\ \E quiet_run \in BOOLEAN :
          \/ /\ run_raises(encoder) # ""
             /\ raised' = "TypeError"
             /\ runs' = runs \cup {[had |-> was_set, outcome |-> "TypeError",
                                   logged |-> FALSE, command |-> <<>>]}
             /\ UNCHANGED launched
          \/ /\ run_raises(encoder) = ""
             /\ raised' = ""
             /\ runs' = runs \cup {[had |-> was_set, outcome |-> "launched",
                                   logged |-> ~quiet_run,
                                   command |-> run_command(encoder)]}
             /\ launched' = launched \cup {run_command(encoder)}
    /\ UNCHANGED <<encoder, was_set>>
    /\ UNCHANGED <<searchVars, probeVars, mainVars>>

InitBuilder == IdleSearch /\ IdleBuilder /\ IdleProbe /\ IdleMain /\ launched = {}

NextBuilder ==
    \/ CallInput
    \/ CallOutput
    \/ CallStartTime
    \/ CallStopAt
    \/ CallQuality
    \/ CallCrop
    \/ CallPreviews
    \/ CallBurnSubtitle
    \/ CallAudioEncoder
    \/ CallRun

SpecBuilder == InitBuilder /\ [][NextBuilder]_vars

----------------------------------------------------------------------------
(* Claims about the Handbrake builder, checked under SpecBuilder *)

RequiredSetters == {"input", "quality", "audio_encoder"}

\* C6: run() launches handbrakecli only if input(), quality() and
\* audio_encoder() have all completed on the object; otherwise it raises
\* TypeError and launches nothing.
C6_RunNeedsAllThree ==
    /\ \A r \in runs :
          /\ r.outcome = "launched" <=> RequiredSetters \subseteq r.had
          /\ r.outcome = "launched" =>
                /\ r.command \in launched
                /\ HasOption(r.command, "--input")
                /\ HasOption(r.command, "--quality")
                /\ HasOption(r.command, "--aencoder")
          /\ r.outcome # "launched" =>
                r.outcome = "TypeError" /\ r.command = <<>>
    /\ launched = { r.command : r \in {x \in runs : x.outcome = "launched"} }
    /\ raised = "TypeError" => RequiredSetters \ was_set # {}

\* a run() refused on an object that lacked only the audio profile, and
\* a second run() that launched once audio_encoder() had been called
C6_Witness ==
    /\ was_set = RequiredSetters
    /\ Cardinality(launched) = 1
    /\ \E r \in runs : r.outcome = "TypeError" /\ r.had = {"input", "quality"}
    /\ \E r \in runs : r.outcome = "launched" /\ r.had = RequiredSetters

AutoCrop == <<"--crop-threshold-frames", "3">>

DefaultPreviews == <<"--previews", "1:0">>

\* C9 as stated: a fresh builder has crop '0:0:0:0', and no builder state
\* has auto-crop enabled with the default previews value.
C9_AutoCropWidensPreviews ==
    /\ calls = 0 => encoder.crop_command = <<"--crop", "0:0:0:0">>
    /\ encoder.crop_command = AutoCrop =>
          encoder.previews_command # DefaultPreviews

\* C9 as amended: a fresh builder has crop '0:0:0:0' and previews '1:0';
\* crop() switches crop to threshold-frame detection and nothing else, and
\* the preview count leaves its default only through a previews() call.
C9_CropLeavesPreviews ==
    /\ calls = 0 =>
          /\ encoder.crop_command = <<"--crop", "0:0:0:0">>
          /\ encoder.previews_command = DefaultPreviews
    /\ encoder.crop_command =
          (IF "crop" \in was_set THEN AutoCrop ELSE <<"--crop", "0:0:0:0">>)
    /\ encoder.previews_command # DefaultPreviews => "previews" \in was_set

\* auto-crop enabled by crop() alone: the preview count is still the default
C9_Witness ==
    /\ "crop" \in was_set
    /\ "previews" \notin was_set
    /\ encoder.crop_command = AutoCrop
    /\ encoder.previews_command = DefaultPreviews

----------------------------------------------------------------------------
(* FFProbe.__init__: the loop over ffprobe's streams *)

\* one element of media_info.get('streams'); a field a codec type does not
\* carry holds its empty value
Stream(type, height, rate, side_data, language, channels, forced, codec) ==
    [codec_type |-> type, height |-> height, avg_frame_rate |-> rate,
     side_data_list |-> side_data, language |-> language,
     channels |-> channels, forced |-> forced, codec_name |-> codec]

SideDataLists == { <<>>,
                   <<"DOVI configuration record">>,
                   <<"Mastering display metadata">> }

VideoStreams ==
    { Stream("video", h, r, sd, "", 0, 0, "hevc") :
        h \in {1080, 2160}, r \in {"24000/1001", "25/1"}, sd \in SideDataLists }

AudioStreams ==
    { Stream("audio", 0, "0/0", <<>>, l, ch, 0, "dts") :
        l \in {"eng", "fra"}, ch \in {2, 6} }

SubtitleStreams ==
    { Stream("subtitle", 0, "0/0", <<>>, l, 0, f, "hdmv_pgs_subtitle") :
        l \in {"eng", "fra"}, f \in {0, 1} }

OtherStreams == { Stream("attachment", 0, "0/0", <<>>, "", 0, 0, "ttf") }

ProbedStreams ==
    VideoStreams \cup AudioStreams \cup SubtitleStreams \cup OtherStreams

\* line 74: the first side-data record is a DOVI configuration record
is_dovi(stream) ==
    stream.side_data_list[1] = "DOVI configuration record"

InitProbe ==
    /\ IdleSearch /\ IdleBuilder /\ IdleMain /\ launched = {}
    /\ streams \in UNION { [1..n -> ProbedStreams] : n \in 0..MaxStreams }
    /\ stream_pos = 0
    /\ probe = [height |-> 0, frame_rate |-> "0", is_dolby_vision |-> FALSE,
                subtitles |-> <<>>, audios |-> <<>>, bitrate |-> 0,
                duration_in_seconds |-> 0]
    /\ probe_pc = "streams"
    /\ audio_index = 0
    /\ subtitle_index = 0

\* lines 69-91: one iteration of the loop over the streams
ProbeStream ==
    /\ probe_pc = "streams"
    /\ stream_pos < Len(streams)
    /\ stream_pos' = stream_pos + 1
    /\ LET stream == streams[stream_pos + 1]
       IN  \/ /\ stream.codec_type = "video"
              /\ probe' = [probe EXCEPT
                     !.height = stream.height,
                     !.frame_rate = stream.avg_frame_rate,
                     !.is_dolby_vision =
                         IF stream.side_data_list # <<>>
                         THEN is_dovi(stream) ELSE @]
              /\ UNCHANGED <<audio_index, subtitle_index>>
           \/ /\ stream.codec_type = "audio"
              /\ audio_index' = audio_index + 1
              /\ probe' = [probe EXCEPT
                     !.audios = Append(@, [index |-> audio_index + 1,
                                           language |-> stream.language,
                                           channels |-> stream.channels])]
              /\ UNCHANGED subtitle_index
           \/ /\ stream.codec_type = "subtitle"
              /\ subtitle_index' = subtitle_index + 1
              /\ probe' = [probe EXCEPT
                     !.subtitles = Append(@, [index |-> subtitle_index + 1,
                                              language |-> stream.language,
                                              forced |-> stream.forced = 1,
                                              type |-> stream.codec_name])]
              /\ UNCHANGED audio_index
           \/ /\ stream.codec_type \notin {"video", "audio", "subtitle"}
              /\ UNCHANGED <<probe, audio_index, subtitle_index>>
    /\ UNCHANGED <<streams, probe_pc>>
    /\ UNCHANGED <<searchVars, builderVars, mainVars, launched>>

\* lines 93-94: format.bit_rate and format.duration, bit/s and seconds
ProbeFormat ==
    /\ probe_pc = "streams"
    /\ stream_pos = Len(streams)
    /\ \E bitrate \in SampleBitrates :
          probe' = [probe EXCEPT !.bitrate = bitrate,
                                 !.duration_in_seconds = 600]
    /\ probe_pc' = "done"
    /\ UNCHANGED <<streams, stream_pos, audio_index, subtitle_index>>
    /\ UNCHANGED <<searchVars, builderVars, mainVars, launched>>

NextProbe ==
    \/ ProbeStream
    \/ ProbeFormat

SpecProbe == InitProbe /\ [][NextProbe]_vars

----------------------------------------------------------------------------
(* Claims about FFProbe, checked under SpecProbe *)

VideoPositions == { i \in 1..Len(streams) : streams[i].codec_type = "video" }

FirstVideo == streams[CHOOSE i \in VideoPositions :
                          \A j \in VideoPositions : i <= j]

\* C10: when the stream list holds one or more video streams, the object's
\* height, frame rate and Dolby Vision flag are those of the first video
\* stream.  The loop has no break: every video stream overwrites the height
\* and the frame rate, and one with side data the flag.
C10_FirstVideoStreamOnly ==
    (probe_pc = "done" /\ VideoPositions # {}) =>
        /\ probe.height = FirstVideo.height
        /\ probe.frame_rate = FirstVideo.avg_frame_rate
        /\ probe.is_dolby_vision =
              (FirstVideo.side_data_list # <<>> /\ is_dovi(FirstVideo))

----------------------------------------------------------------------------
(* The main script, from the output check to its end *)

\* str.isdigit and int on the texts --burn-subtitle can hold
DigitTexts == { str(n) : n \in 0..9 }

isdigit(text) == text \in DigitTexts

int(text) == CHOOSE n \in 0..9 : str(n) = text

\* the subtitle tracks FFProbe builds: indices 1, 2, ... in stream order
SubtitleLists ==
    UNION { { [i \in 1..n |-> [index |-> i, language |-> t[i][1],
                               forced |-> t[i][2],
                               type |-> "hdmv_pgs_subtitle"]] :
                t \in [1..n -> {"eng", "fra"} \X BOOLEAN] } :
            n \in 0..MaxSubtitles }

MainSources ==
    { [file_path |-> [dir |-> "/rips", base |-> "movie.mkv"],
       height |-> 2160, duration_in_seconds |-> 600,
       frame_rate |-> "24000/1001", is_dolby_vision |-> dv,
       audios |-> << [index |-> 1, language |-> l, channels |-> ch] >>,
       subtitles |-> subs] :
          dv \in BOOLEAN, l \in {"eng", "fra"}, ch \in {2, 6},
          subs \in SubtitleLists }

MainArguments ==
    [burn_subtitle : {"auto", "none", "0", "2"}, crop : BOOLEAN,
     quality : {0, 47}, target : {0, 8000}]

\* the values find_quality_option is taken to return to line 502: the ends
\* and the middle of the range of the source's height
SearchResults(height) ==
    { initial_low_cq(height),
      midpoint(initial_low_cq(height), initial_high_cq(height)),
      initial_high_cq(height) }

\* output_path and the files of inject_dolby_vision
output_path == basename(media_info.file_path)
old_encoded_file == output_path \o ".old"
rpu_directory == "tmp/RPU.bin"
encoded_file_stream_directory == "tmp/com.hevc"
injected_file_stream_directory == "tmp/inj.hevc"

\* lines 341-347 from the track at position i on; the audio language is
\* read from the global media_info
RECURSIVE burn_track_from(_, _)
burn_track_from(subtitles, i) ==
    IF i > Len(subtitles) THEN 0
    ELSE IF subtitles[i].forced THEN subtitles[i].index
    ELSE IF media_info.audios[1].language # "eng"
            /\ subtitles[i].language = "eng" THEN subtitles[i].index
    ELSE burn_track_from(subtitles, i + 1)

find_burn_subtitle_track(subtitles) == burn_track_from(subtitles, 1)

\* the exit status of an external tool: 0, or not
ExitStatus == {0, 1}

\* subprocess.run of a tool that needs the files in needs: it can only fail
\* when one of them is missing; the status is not looked at
RunTool(tool, needs, makes) ==
    \E status \in (IF needs \subseteq disk THEN ExitStatus ELSE {1}) :
        /\ tools' = Append(tools, <<tool, status>>)
        /\ disk' = IF status = 0 THEN disk \cup makes ELSE disk

InitMain ==
    /\ IdleSearchLocals /\ IdleBuilder /\ IdleProbe /\ launched = {}
    /\ media_info \in MainSources
    /\ arguments \in MainArguments
    /\ main_pc = "prepare"
    /\ quality_option = 0
    /\ subtitle_track = -1
    /\ \E output_exists \in BOOLEAN :
          disk = {PathStr(media_info.file_path)}
                     \cup (IF output_exists THEN {output_path} ELSE {})
    /\ tools = <<>>

MainUnchanged ==
    /\ UNCHANGED <<media_info, pc, low_cq, high_cq, cq, sample_index,
                   bit_rate_sum, bit_rate_mean, temporary_directory, measured,
                   accepted, returned_cq>>
    /\ UNCHANGED <<calls, was_set, runs, raised, arguments>>
    /\ UNCHANGED probeVars

\* lines 486-502: the output must not exist; the target's default; the
\* quality is the --quality given or what find_quality_option returns
MainPrepare ==
    /\ main_pc = "prepare"
    /\ \/ /\ output_path \in disk
          /\ main_pc' = "aborted"
          /\ UNCHANGED <<target_bit_rate, quality_option>>
       \/ /\ output_path \notin disk
          /\ target_bit_rate' =
                IF arguments.target = 0
                THEN (IF media_info.height > 1080 THEN 12000 ELSE 4000)
                ELSE arguments.target
          /\ \/ /\ arguments.quality # 0
                /\ quality_option' = arguments.quality
                /\ main_pc' = "build"
             \/ /\ arguments.quality = 0
                /\ quality_option' \in SearchResults(media_info.height)
                /\ main_pc' = "build"
             \/ /\ arguments.quality = 0
                /\ UNCHANGED quality_option
                /\ main_pc' = "aborted"
    /\ UNCHANGED <<encoder, subtitle_track, disk, tools, launched>>
    /\ MainUnchanged

\* lines 504-512
MainBuild ==
    /\ main_pc = "build"
    /\ LET e1 == Handbrake_input(Handbrake_init, media_info.file_path)
           e2 == Handbrake_output(e1, output_path)
           e3 == Handbrake_quality(e2, quality_option)
       IN  encoder' = IF media_info.audios[1].channels <= 2
                      THEN Handbrake_audio_encoder(e3, "aac")
                      ELSE Handbrake_audio_encoder(e3, "ac3")
    /\ main_pc' = "crop"
    /\ UNCHANGED <<target_bit_rate, quality_option, subtitle_track, disk,
                   tools, launched>>
    /\ MainUnchanged

\* lines 514-516
MainCrop ==
    /\ main_pc = "crop"
    /\ encoder' = IF arguments.crop
                  THEN Handbrake_crop(Handbrake_previews(encoder, 60))
                  ELSE encoder
    /\ main_pc' = "burn"
    /\ UNCHANGED <<target_bit_rate, quality_option, subtitle_track, disk,
                   tools, launched>>
    /\ MainUnchanged

\* lines 518-523
MainBurnSubtitle ==
    /\ main_pc = "burn"
    /\ \/ /\ isdigit(arguments.burn_subtitle)
          /\ subtitle_track' = int(arguments.burn_subtitle)
          /\ encoder' = Handbrake_burn_subtitle(encoder, subtitle_track')
       \/ /\ ~isdigit(arguments.burn_subtitle)
          /\ arguments.burn_subtitle = "auto"
          /\ media_info.is_dolby_vision = FALSE
          /\ subtitle_track' = find_burn_subtitle_track(media_info.subtitles)
          /\ encoder' = Handbrake_burn_subtitle(encoder, subtitle_track')
       \/ /\ ~isdigit(arguments.burn_subtitle)
          /\ ~(arguments.burn_subtitle = "auto"
               /\ media_info.is_dolby_vision = FALSE)
          /\ UNCHANGED <<subtitle_track, encoder>>
    /\ main_pc' = "run"
    /\ UNCHANGED <<target_bit_rate, quality_option, disk, tools, launched>>
    /\ MainUnchanged

\* line 525: the final encode; handbrakecli's exit status is not looked at,
\* and a failed encode may or may not leave an output file
MainRun ==
    /\ main_pc = "run"
    /\ run_raises(encoder) = ""
    /\ launched' = launched \cup {run_command(encoder)}
    /\ \E status \in ExitStatus, written \in BOOLEAN :
          /\ status = 0 => written
          /\ tools' = Append(tools, <<"handbrakecli", status>>)
          /\ disk' = IF written THEN disk \cup {output_path} ELSE disk
    /\ main_pc' = "probe_output"
    /\ UNCHANGED <<target_bit_rate, quality_option, subtitle_track, encoder>>
    /\ MainUnchanged

\* lines 527-528: FFProbe(output_path) raises when there is no output
MainProbeOutput ==
    /\ main_pc = "probe_output"
    /\ main_pc' = IF output_path \notin disk THEN "aborted"
                  ELSE IF media_info.is_dolby_vision THEN "extract_rpu"
                  ELSE "done"
    /\ UNCHANGED <<target_bit_rate, quality_option, subtitle_track, encoder,
                   disk, tools, launched>>
    /\ MainUnchanged

\* inject_dolby_vision, lines 356-374: ffmpeg piped into dovi_tool extract-rpu
ExtractRpu ==
    /\ main_pc = "extract_rpu"
    /\ RunTool("dovi_tool extract-rpu", {PathStr(media_info.file_path)},
               {rpu_directory})
    /\ main_pc' = "extract_stream"
    /\ UNCHANGED <<target_bit_rate, quality_option, subtitle_track, encoder,
                   launched>>
    /\ MainUnchanged

\* lines 376-381: mkvextract of the encoded video track
ExtractStream ==
    /\ main_pc = "extract_stream"
    /\ RunTool("mkvextract", {output_path}, {encoded_file_stream_directory})
    /\ main_pc' = "inject_rpu"
    /\ UNCHANGED <<target_bit_rate, quality_option, subtitle_track, encoder,
                   launched>>
    /\ MainUnchanged

\* lines 382-389: dovi_tool inject-rpu
InjectRpu ==
    /\ main_pc = "inject_rpu"
    /\ RunTool("dovi_tool inject-rpu",
               {encoded_file_stream_directory, rpu_directory},
               {injected_file_stream_directory})
    /\ main_pc' = "rename"
    /\ UNCHANGED <<target_bit_rate, quality_option, subtitle_track, encoder,
                   launched>>
    /\ MainUnchanged

\* lines 391-392: the encode is renamed aside
RenameAside ==
    /\ main_pc = "rename"
    /\ output_path \in disk
    /\ disk' = (disk \ {output_path}) \cup {old_encoded_file}
    /\ main_pc' = "remux"
    /\ UNCHANGED <<target_bit_rate, quality_option, subtitle_track, encoder,
                   tools, launched>>
    /\ MainUnchanged

\* lines 394-401: mkvmerge of the injected stream and the other tracks
Remux ==
    /\ main_pc = "remux"
    /\ RunTool("mkvmerge", {injected_file_stream_directory, old_encoded_file},
               {output_path})
    /\ main_pc' = "remove_old"
    /\ UNCHANGED <<target_bit_rate, quality_option, subtitle_track, encoder,
                   launched>>
    /\ MainUnchanged

\* lines 403-404: the file renamed aside and the temporary directory go
RemoveOld ==
    /\ main_pc = "remove_old"
    /\ disk' = disk \ {old_encoded_file, rpu_directory,
                       encoded_file_stream_directory,
                       injected_file_stream_directory}
    /\ main_pc' = "inject_hdr"
    /\ UNCHANGED <<target_bit_rate, quality_option, subtitle_track, encoder,
                   tools, launched>>
    /\ MainUnchanged

\* line 530, inject_hdr: mkvpropedit runs when the first frame carries both
\* the mastering display and the content light level records
InjectHdr ==
    /\ main_pc = "inject_hdr"
    /\ \E md \in BOOLEAN, cll \in BOOLEAN :
          IF md /\ cll
          THEN RunTool("mkvpropedit", {output_path}, {})
          ELSE UNCHANGED <<tools, disk>>
    /\ main_pc' = "done"
    /\ UNCHANGED <<target_bit_rate, quality_option, subtitle_track, encoder,
                   launched>>
    /\ MainUnchanged

NextMain ==
    \/ MainPrepare
    \/ MainBuild
    \/ MainCrop
    \/ MainBurnSubtitle
    \/ MainRun
    \/ MainProbeOutput
    \/ ExtractRpu
    \/ ExtractStream
    \/ InjectRpu
    \/ RenameAside
    \/ Remux
    \/ RemoveOld
    \/ InjectHdr

SpecMain == InitMain /\ [][NextMain]_vars

----------------------------------------------------------------------------
(* Claims about the main script, checked under SpecMain *)

ForcedTracks == { i \in 1..Len(media_info.subtitles) :
                     media_info.subtitles[i].forced }

EnglishTracks == { i \in 1..Len(media_info.subtitles) :
                      media_info.subtitles[i].language = "eng" }

First(positions) == CHOOSE i \in positions : \A j \in positions : i <= j

\* the track the policy of the specification selects (0: none)
PolicyTrack ==
    IF ForcedTracks # {}
    THEN media_info.subtitles[First(ForcedTracks)].index
    ELSE IF media_info.audios[1].language # "eng" /\ EnglishTracks # {}
    THEN media_info.subtitles[First(EnglishTracks)].index
    ELSE 0

AutoSearched ==
    /\ arguments.burn_subtitle = "auto"
    /\ ~media_info.is_dolby_vision
    /\ main_pc \notin {"prepare", "build", "crop", "burn", "aborted"}

\* C4: find_burn_subtitle_track returns the index of the first forced track
\* if there is one, else the index of the first English track if the
\* primary audio is not English, else no track.  The code takes the first
\* track that is forced or, under foreign audio, English, so an English
\* track ahead of the forced one wins.
C4_ForcedTrackFirst == AutoSearched => subtitle_track = PolicyTrack

\* the final encode requests launched: the main script launches no other
FinalRequests == launched

\* C8: with --burn-subtitle auto, no Dolby Vision and no track selected by
\* the policy the final request carries no burn-in option, and a burn-in
\* option is present only for a track the policy selected or the caller
\* gave.  The code calls burn_subtitle(0) when the policy selects nothing.
C8_NoBurnInWithoutTrack ==
    \A command \in FinalRequests :
        LET burned == HasOption(command, "--subtitle-burned")
                         \/ HasOption(command, "--subtitle")
            selected == arguments.burn_subtitle = "auto"
                           /\ ~media_info.is_dolby_vision
                           /\ PolicyTrack # 0
        IN  /\ (arguments.burn_subtitle = "auto"
                  /\ ~media_info.is_dolby_vision
                  /\ PolicyTrack = 0) => ~burned
            /\ burned => (isdigit(arguments.burn_subtitle) \/ selected)

DoviChain == {"dovi_tool extract-rpu", "mkvextract", "dovi_tool inject-rpu",
              "mkvmerge"}

\* C7: in inject_dolby_vision a failing tool ends the run at that step, and
\* when mkvmerge fails the file renamed aside is left in place.  The code
\* never looks at an exit status: it goes on and removes the .old file.
C7_FailureKeepsOldFile ==
    /\ \A i \in 1..Len(tools) :
          (tools[i][1] \in DoviChain /\ tools[i][2] # 0) => i = Len(tools)
    /\ (\E i \in 1..Len(tools) : tools[i] = <<"mkvmerge", 1>>) =>
          old_encoded_file \in disk

====
